---- MODULE Spec2Model ----
(***************************************************************************)
(* The COVID-19 dashboard script (creating-dashboard.py).  The script is   *)
(* re-executed from its first line on every widget change.  The state is   *)
(* the CSV file, the widget values the session keeps between runs, and     *)
(* everything the last run bound or rendered.                              *)
(***************************************************************************)
EXTENDS Integers, Sequences, FiniteSets, TLC

VARIABLES
    csv,              \* the rows of ./data/cleaned_covid_data.csv, dates as text
    tie_order,        \* how this build's quicksort orders rows of equal date
    country,          \* st.selectbox value
    date_range,       \* st.date_input value: a tuple of 0, 1 or 2 dates
    show_trends,      \* st.checkbox "Show trend lines"
    show_moving_avg,  \* st.checkbox "Show moving averages"
    df,               \* the module-level frame of the last run
    filtered_df,      \* row labels of the filtered frame, and its added columns
    latest_data,      \* <<row>> when bound, <<>> when the name was never bound
    vaccination_rate, \* <<value>> when bound, <<>> when never bound
    metric_cards,     \* <<values shown in the cards>>, <<>> when not rendered
    fig_main,         \* <<trend chart>>
    cfr,              \* filtered_df_copy['cfr']
    fig_pie,          \* <<[vaccinated, unvaccinated]>>, <<>> when not drawn
    fig_gauge,        \* <<gauge value>>, <<>> when not drawn
    fig_stringency,   \* <<y values>>, <<>> when not drawn
    profile_cards,    \* <<cards>>, <<>> when not rendered
    error             \* "none", or the exception that ended the last run

vars == <<csv, tie_order, country, date_range, show_trends, show_moving_avg,
          df, filtered_df, latest_data, vaccination_rate, metric_cards,
          fig_main, cfr, fig_pie, fig_gauge, fig_stringency, profile_cards,
          error>>

---------------------------------------------------------------------------
(* Bounds of the model.                                                    *)
MaxRows == 3      \* rows of a dataset of the filtering family
MaxDays == 2      \* calendar days used by the filtering family
MaxVal == 2       \* largest observation of the snapshot family
MaxSeries == 8    \* longest daily series of the rolling family
FirstDay == 31    \* day of year 2021 of the first calendar day (31 = Jan 31)

(* Program constants.                                                      *)
Window == 7
NaN == -1         \* a missing cell (pandas NaN); observations are >= 0

---------------------------------------------------------------------------
(* numpy float64 results, kept exact: a reduced fraction, nan, or inf.     *)
RECURSIVE GCD(_, _)
GCD(a, b) == IF b = 0 THEN a ELSE GCD(b, a % b)

Num(n, d) ==
    LET g == GCD(n, d) IN [k |-> "num", n |-> n \div g, d |-> d \div g]
NaNF == [k |-> "nan", n |-> 0, d |-> 1]
Inf == [k |-> "inf", n |-> 0, d |-> 1]

notna(x) == x # NaN

\* a / b on float64 cells: nan propagates, x/0 is inf, 0/0 is nan; no raise
FloatDiv(a, b) ==
    IF ~notna(a) \/ ~notna(b) THEN NaNF
    ELSE IF b = 0 THEN (IF a = 0 THEN NaNF ELSE Inf)
    ELSE Num(a, b)

Times100(f) == IF f.k = "num" THEN Num(f.n * 100, f.d) ELSE f

RECURSIVE SeqSum(_)
SeqSum(s) == IF s = <<>> THEN 0 ELSE Head(s) + SeqSum(Tail(s))

Range(s) == {s[i] : i \in DOMAIN s}
Last(s) == s[Len(s)]

---------------------------------------------------------------------------
(* Dates.  The CSV holds date text (year, month, day); pd.to_datetime      *)
(* turns it into a timestamp, here the day number counted from 2021-01-01. *)
MonthLengths == <<31, 28, 31, 30, 31, 30, 31, 31, 30, 31, 30, 31>>

RECURSIVE DaysBefore(_)
DaysBefore(m) == IF m = 1 THEN 0 ELSE MonthLengths[m - 1] + DaysBefore(m - 1)

to_datetime(t) == (t[1] - 2021) * 365 + DaysBefore(t[2]) + t[3]

\* Timestamp.date(): the calendar date of a timestamp of 2021
RECURSIVE DateFrom(_, _)
DateFrom(m, o) ==
    IF o <= MonthLengths[m] THEN <<2021, m, o>> ELSE DateFrom(m + 1, o - MonthLengths[m])

DateOf(o) == DateFrom(1, o)

---------------------------------------------------------------------------
(* Line 10: df = pd.read_csv(...).  An empty text cell is read as NaN.     *)
NaNLocation == ""
read_csv(file) == file

\* line 90: df['date'] = pd.to_datetime(df['date'])
ConvertDates(frame) ==
    [i \in DOMAIN frame |-> [frame[i] EXCEPT !.date = to_datetime(@)]]

\* line 81: df['location'].dropna().unique()
countries(frame) == {frame[i].location : i \in DOMAIN frame} \ {NaNLocation}

\* line 84: sorted(countries), in code point order ("US" < "us")
SortedNames == <<"US", "us">>
sorted_countries(frame) ==
    SelectSeq(SortedNames, LAMBDA c : c \in countries(frame))

\* lines 91-92: df['date'].min(), df['date'].max()
min_date(frame) ==
    CHOOSE d \in {frame[i].date : i \in DOMAIN frame} :
        \A i \in DOMAIN frame : d <= frame[i].date
max_date(frame) ==
    CHOOSE d \in {frame[i].date : i \in DOMAIN frame} :
        \A i \in DOMAIN frame : d >= frame[i].date

\* lines 94-99: what st.date_input can return: no date, a start date only,
\* or a start and an end with start <= end, all within [min_date, max_date]
DateRangeChoices(frame) ==
    LET days == min_date(frame)..max_date(frame) IN
    {<<>>} \cup {<<DateOf(a)>> : a \in days}
           \cup UNION {{<<DateOf(a), DateOf(b)>> : b \in a..max_date(frame)} : a \in days}

\* line 96: value=(min_date, max_date), on the first run of a session
DefaultDateRange(file) ==
    LET frame == ConvertDates(read_csv(file))
    IN <<DateOf(min_date(frame)), DateOf(max_date(frame))>>

\* lines 82-86: the select box starts at the first option
DefaultCountry(file) == sorted_countries(ConvertDates(read_csv(file)))[1]

---------------------------------------------------------------------------
(* Lines 106-112: the filter.  A frame is a sequence of rows; the row      *)
(* label is its position in df, and a filtered frame is a sequence of      *)
(* labels.                                                                 *)

\* a match that ignores case, as df['location'].str.upper() == country.upper()
Upper(name) == IF name = "us" THEN "US" ELSE name
LocationRowsAnyCase(frame, c) ==
    SelectSeq([i \in DOMAIN frame |-> i], LAMBDA i : Upper(frame[i].location) = Upper(c))

\* df[df['location'] == country]: the labels of the matching rows, in df order
LocationRows(frame, c) ==
    SelectSeq([i \in DOMAIN frame |-> i], LAMBDA i : frame[i].location = c)

\* the order quicksort leaves two labels in: by date, and rows of equal date
\* in an order the sort does not promise (kind='quicksort' is not stable)
Before(frame, a, b, tie) ==
    \/ frame[a].date < frame[b].date
    \/ /\ frame[a].date = frame[b].date
       /\ IF tie = "original" THEN a < b ELSE a > b

RECURSIVE SortLabels(_, _, _)
SortLabels(frame, S, tie) ==
    IF S = {} THEN <<>>
    ELSE LET m == CHOOSE x \in S : \A y \in S \ {x} : Before(frame, x, y, tie)
         IN <<m>> \o SortLabels(frame, S \ {m}, tie)

\* .sort_values('date')
sort_values(frame, labels, tie) == SortLabels(frame, Range(labels), tie)

\* a mask that also applies a lone start date as a lower bound
DateMaskFromStart(frame, labels, dr) ==
    IF Len(dr) = 2
    THEN SelectSeq(labels, LAMBDA i :
             /\ frame[i].date >= to_datetime(dr[1])
             /\ frame[i].date <= to_datetime(dr[2]))
    ELSE IF Len(dr) = 1
    THEN SelectSeq(labels, LAMBDA i : frame[i].date >= to_datetime(dr[1]))
    ELSE labels

\* lines 108-112: the date mask, applied only to a tuple of two dates
DateMask(frame, labels, dr) ==
    IF Len(dr) = 2
    THEN SelectSeq(labels, LAMBDA i :
             /\ frame[i].date >= to_datetime(dr[1])
             /\ frame[i].date <= to_datetime(dr[2]))
    ELSE labels

Filter(frame, c, dr, tie) ==
    DateMask(frame, sort_values(frame, LocationRows(frame, c), tie), dr)

---------------------------------------------------------------------------
(* Lines 114-156: the metric cards.                                        *)

\* Series.get(key, default): the default only when the key is no column
Get(cells, key, default) == IF key \in DOMAIN cells THEN cells[key] ELSE default

\* line 116: filtered_df.iloc[-1]
iloc_last(frame, labels) == [name |-> Last(labels), cells |-> frame[Last(labels)]]

\* lines 121, 130, 139: the values handed to the cards' format strings
MetricCards(cells) ==
    [total_cases |-> Get(cells, "total_cases", 0),
     total_deaths |-> Get(cells, "total_deaths", 0),
     new_cases |-> Get(cells, "new_cases", 0)]

\* lines 148-150
VaccinationRate(cells) ==
    IF notna(Get(cells, "people_vaccinated", NaN)) /\ notna(Get(cells, "population", NaN))
    THEN Times100(FloatDiv(cells.people_vaccinated, cells.population))
    ELSE Num(0, 1)

---------------------------------------------------------------------------
(* Lines 158-233: the trend chart and the moving averages.                 *)
Column(frame, labels, key) == [k \in DOMAIN labels |-> frame[labels[k]][key]]

\* line 176
Fill(st) == IF st THEN "tonexty" ELSE "None"

\* Series.rolling(window=7).mean(): min_periods is the window, and a NaN in
\* the window leaves fewer than min_periods observations
RollingMean(vals) ==
    [i \in DOMAIN vals |->
        IF i >= Window /\ \A j \in (i - Window + 1)..i : notna(vals[j])
        THEN Num(SeqSum(SubSeq(vals, i - Window + 1, i)), Window)
        ELSE NaNF]

\* line 220
ShowsMovingAverage(sma, labels) == sma /\ Len(labels) > 7

\* lines 107-112, 221-222: the filtered frame with the columns added to it
FilteredFrame(frame, labels, sma) ==
    IF ShowsMovingAverage(sma, labels)
    THEN [index |-> labels, has_ma |-> TRUE,
          new_cases_ma |-> RollingMean(Column(frame, labels, "new_cases")),
          new_deaths_ma |-> RollingMean(Column(frame, labels, "new_deaths"))]
    ELSE [index |-> labels, has_ma |-> FALSE,
          new_cases_ma |-> <<>>, new_deaths_ma |-> <<>>]

\* lines 161-233
MainChart(frame, fdf, st) ==
    [fill |-> Fill(st),
     x |-> Column(frame, fdf.index, "date"),
     total_cases |-> Column(frame, fdf.index, "total_cases"),
     total_deaths |-> Column(frame, fdf.index, "total_deaths"),
     new_cases |-> Column(frame, fdf.index, "new_cases"),
     new_deaths |-> Column(frame, fdf.index, "new_deaths"),
     new_cases_ma |-> fdf.new_cases_ma]

---------------------------------------------------------------------------
(* Lines 252-253: the case fatality rate.                                  *)

\* a division without the replacement of zero
KeepZero(x) == x

\* Series.replace(0, pd.NA)
ReplaceZero(x) == IF x = 0 THEN NaN ELSE x

CaseFatalityRate(frame, labels) ==
    [k \in DOMAIN labels |->
        Times100(FloatDiv(frame[labels[k]].total_deaths,
                          ReplaceZero(frame[labels[k]].total_cases)))]

---------------------------------------------------------------------------
(* Lines 282-347: the vaccination pie and gauge.  Reading a name that no   *)
(* statement of this run bound raises NameError and ends the run.          *)
PieRaises(latest) == latest = <<>>

\* lines 286-308
Pie(cells) ==
    IF notna(Get(cells, "people_vaccinated", NaN)) /\ notna(Get(cells, "population", NaN))
    THEN <<[vaccinated |-> cells.people_vaccinated,
            unvaccinated |-> cells.population - cells.people_vaccinated]>>
    ELSE <<>>

\* line 312
GaugeRaises(rate) == rate = <<>>

---------------------------------------------------------------------------
(* Lines 376-419: the country profile cards.                               *)

\* filtered_df.dropna(subset=['median_age', 'population_density', 'gdp_per_capita'])
DropNa(frame, labels) ==
    SelectSeq(labels, LAMBDA i :
        /\ notna(frame[i].median_age)
        /\ notna(frame[i].population_density)
        /\ notna(frame[i].gdp_per_capita))

ProfileCards(frame, labels) ==
    IF labels = <<>> \/ DropNa(frame, labels) = <<>> THEN <<>>
    ELSE LET latest == frame[Last(DropNa(frame, labels))] IN
         <<[median_age |-> Get(latest, "median_age", 0),
            pop_density |-> Get(latest, "population_density", 0),
            gdp_per_capita |-> Get(latest, "gdp_per_capita", 0),
            hdi |-> Get(latest, "human_development_index", 0)]>>

---------------------------------------------------------------------------
(* One execution of the script, first line to last or to the statement     *)
(* that raises.  What a statement after the raise would have drawn is not  *)
(* drawn.                                                                  *)
\* lines 114-419, on the frame and the filtered labels of lines 10-112
Render(frame, labels, st, sma) ==
    LET latest == IF labels # <<>> THEN <<iloc_last(frame, labels)>> ELSE <<>>
        rate == IF labels # <<>> THEN <<VaccinationRate(latest[1].cells)>> ELSE <<>>
        fdf == FilteredFrame(frame, labels, sma)
        raised == PieRaises(latest) \/ GaugeRaises(rate)
    IN [df |-> frame,
        filtered_df |-> fdf,
        latest_data |-> latest,
        vaccination_rate |-> rate,
        metric_cards |-> IF labels # <<>> THEN <<MetricCards(latest[1].cells)>> ELSE <<>>,
        fig_main |-> <<MainChart(frame, fdf, st)>>,
        cfr |-> CaseFatalityRate(frame, labels),
        fig_pie |-> IF raised THEN <<>> ELSE Pie(latest[1].cells),
        fig_gauge |-> IF raised THEN <<>> ELSE <<rate[1]>>,
        fig_stringency |-> IF raised THEN <<>>
                           ELSE <<Column(frame, labels, "stringency_index")>>,
        profile_cards |-> IF raised THEN <<>> ELSE ProfileCards(frame, labels),
        error |-> IF raised THEN "NameError" ELSE "none"]

\* lines 106-419, on the frame of lines 10-90
Filtered(frame, c, dr, st, sma, tie) ==
    Render(frame, Filter(frame, c, dr, tie), st, sma)

\* one execution of the script: every name is bound anew, none is kept from
\* the run before
RunScript(file, c, dr, st, sma, tie) ==
    Filtered(ConvertDates(read_csv(file)), c, dr, st, sma, tie)

---------------------------------------------------------------------------
(* The datasets the model is run on.                                       *)
DefaultRow ==
    [location |-> "US", date |-> DateOf(FirstDay),
     total_cases |-> 1, total_deaths |-> 0, new_cases |-> 1, new_deaths |-> 0,
     people_vaccinated |-> 1, population |-> 2, stringency_index |-> 1,
     median_age |-> 1, population_density |-> 1, gdp_per_capita |-> 1,
     human_development_index |-> 1]

Cells == {NaN} \cup 0..MaxVal

\* datasets of up to MaxRows unsorted rows with dates repeated, at most one
\* of them a row of the second entity
FilterRows ==
    {[DefaultRow EXCEPT !.location = l, !.date = DateOf(d)] :
        l \in Range(SortedNames), d \in FirstDay..(FirstDay + MaxDays - 1)}
FilterFamily ==
    {s \in UNION {[1..n -> FilterRows] : n \in 1..MaxRows} :
        Cardinality({i \in DOMAIN s : s[i].location = SortedNames[2]}) <= 1}

\* a row without a location, before or after a row with one
MissingLocationFamily ==
    UNION {{<<[r EXCEPT !.location = NaNLocation], r2>>,
            <<r2, [r EXCEPT !.location = NaNLocation]>>} :
           r \in FilterRows, r2 \in FilterRows}

\* one row, every combination of present, zero and missing observations
SnapshotFamily ==
    {<<[DefaultRow EXCEPT !.total_cases = tc, !.total_deaths = td, !.new_cases = nc,
                          !.people_vaccinated = pv, !.population = pop]>> :
        tc \in Cells, td \in Cells, nc \in {NaN, 1}, pv \in Cells, pop \in Cells}

\* a few days of one entity, profile fields present or missing
ProfileRow(i, age, hdi) ==
    [DefaultRow EXCEPT !.date = DateOf(FirstDay + i - 1), !.median_age = age,
                       !.human_development_index = hdi]
ProfileFamily ==
    UNION {{[i \in 1..n |-> ProfileRow(i, age[i], hdi[i])] :
               age \in [1..n -> {NaN, 1}], hdi \in [1..n -> {NaN, 1}]} :
           n \in 1..MaxRows}

\* a daily series of MaxSeries days of one entity, stored newest first, with
\* no or one missing new_cases value; a date range cuts it to any length
RollingRow(j, absent) ==
    [DefaultRow EXCEPT !.date = DateOf(FirstDay + j - 1),
                       !.new_cases = IF j \in absent THEN NaN ELSE j % 3,
                       !.new_deaths = (2 * j) % 3]
RollingFamily ==
    {[i \in 1..MaxSeries |-> RollingRow(MaxSeries + 1 - i, absent)] :
        absent \in {{}} \cup {{j} : j \in 1..MaxSeries}}

Datasets ==
    FilterFamily \cup MissingLocationFamily \cup SnapshotFamily \cup ProfileFamily
                 \cup RollingFamily

\* the tie orders that make a difference on a dataset
TieOrders(file) ==
    IF \E i, j \in DOMAIN file :
          i < j /\ file[i].location = file[j].location /\ file[i].date = file[j].date
    THEN {"original", "reversed"}
    ELSE {"original"}

---------------------------------------------------------------------------
(* The state machine: the first run, then one run per widget change.       *)
Init ==
    \E file \in Datasets : \E tie \in TieOrders(file) :
        \E out \in {RunScript(file, DefaultCountry(file), DefaultDateRange(file),
                              TRUE, FALSE, tie)} :
           /\ csv = file
           /\ tie_order = tie
           /\ country = DefaultCountry(file)
           /\ date_range = DefaultDateRange(file)
           /\ show_trends = TRUE
           /\ show_moving_avg = FALSE
           /\ df = out.df
           /\ filtered_df = out.filtered_df
           /\ latest_data = out.latest_data
           /\ vaccination_rate = out.vaccination_rate
           /\ metric_cards = out.metric_cards
           /\ fig_main = out.fig_main
           /\ cfr = out.cfr
           /\ fig_pie = out.fig_pie
           /\ fig_gauge = out.fig_gauge
           /\ fig_stringency = out.fig_stringency
           /\ profile_cards = out.profile_cards
           /\ error = out.error

\* a run that keeps the filtered rows of the last run in the session while
\* the country stays the same, as a cache keyed by the country alone would
RerunCached(c, dr, st, sma) ==
    \E out \in {IF c = country
                THEN Render(df, filtered_df.index, st, sma)
                ELSE RunScript(csv, c, dr, st, sma, tie_order)} :
       /\ country' = c
       /\ date_range' = dr
       /\ show_trends' = st
       /\ show_moving_avg' = sma
       /\ df' = out.df
       /\ filtered_df' = out.filtered_df
       /\ latest_data' = out.latest_data
       /\ vaccination_rate' = out.vaccination_rate
       /\ metric_cards' = out.metric_cards
       /\ fig_main' = out.fig_main
       /\ cfr' = out.cfr
       /\ fig_pie' = out.fig_pie
       /\ fig_gauge' = out.fig_gauge
       /\ fig_stringency' = out.fig_stringency
       /\ profile_cards' = out.profile_cards
       /\ error' = out.error
       /\ UNCHANGED <<csv, tie_order>>

\* the script runs again with the widget values c, dr, st, sma
Rerun(c, dr, st, sma) ==
    \E out \in {RunScript(csv, c, dr, st, sma, tie_order)} :
       /\ country' = c
       /\ date_range' = dr
       /\ show_trends' = st
       /\ show_moving_avg' = sma
       /\ df' = out.df
       /\ filtered_df' = out.filtered_df
       /\ latest_data' = out.latest_data
       /\ vaccination_rate' = out.vaccination_rate
       /\ metric_cards' = out.metric_cards
       /\ fig_main' = out.fig_main
       /\ cfr' = out.cfr
       /\ fig_pie' = out.fig_pie
       /\ fig_gauge' = out.fig_gauge
       /\ fig_stringency' = out.fig_stringency
       /\ profile_cards' = out.profile_cards
       /\ error' = out.error
       /\ UNCHANGED <<csv, tie_order>>

SelectCountry(c) ==
    /\ c \in countries(df)
    /\ c # country
    /\ Rerun(c, date_range, show_trends, show_moving_avg)

SelectDateRange(dr) ==
    /\ dr # date_range
    /\ Rerun(country, dr, show_trends, show_moving_avg)

ToggleTrends == Rerun(country, date_range, ~show_trends, show_moving_avg)

ToggleMovingAvg == Rerun(country, date_range, show_trends, ~show_moving_avg)

Next ==
    \/ \E c \in Range(SortedNames) : SelectCountry(c)
    \/ \E dr \in DateRangeChoices(df) : SelectDateRange(dr)
    \/ ToggleTrends
    \/ ToggleMovingAvg

Spec == Init /\ [][Next]_vars

---------------------------------------------------------------------------
(* The properties.                                                         *)
Labels == filtered_df.index

\* row i of the file has the selected country and a date inside the range
Selected(i) ==
    /\ csv[i].location = country
    /\ Len(date_range) = 2 =>
           /\ to_datetime(csv[i].date) >= to_datetime(date_range[1])
           /\ to_datetime(csv[i].date) <= to_datetime(date_range[2])

OrderedByDate ==
    \A a, b \in DOMAIN Labels : a < b => df[Labels[a]].date <= df[Labels[b]].date

\* C1: a selection whose filtered series is empty yields no snapshot and
\* the run ends without an error
Claim_C1 == Labels = <<>> => (latest_data = <<>> /\ error = "none")

\* C2: the filtered series holds exactly the rows of the selected country
\* (exact match of the name) whose date is in the inclusive range, every
\* date when no range of two dates is given, each once, in non-decreasing
\* date order
Theorem_C2 ==
    /\ Range(Labels) = {i \in DOMAIN csv : Selected(i)}
    /\ \A a, b \in DOMAIN Labels : a # b => Labels[a] # Labels[b]
    /\ OrderedByDate

\* a range of two dates, rows of the country out of date order in the file,
\* and a row of a country whose name differs by case only between them
Witness_C2 ==
    /\ Len(date_range) = 2
    /\ \E a, b \in DOMAIN Labels :
          /\ a < b
          /\ Labels[a] > Labels[b]
          /\ \E i \in DOMAIN csv :
                /\ Labels[b] < i /\ i < Labels[a]
                /\ csv[i].location # country
                /\ Upper(csv[i].location) = Upper(country)

\* C3: with population = 0 and people_vaccinated present the vaccination
\* rate of the snapshot is undefined: no number, and no result of a
\* division by zero
Claim_C3 ==
    (/\ latest_data # <<>>
     /\ latest_data[1].cells.population = 0
     /\ notna(latest_data[1].cells.people_vaccinated))
    => vaccination_rate[1] = NaNF

Claim_C5 ==
    show_moving_avg =>
        \A i \in DOMAIN Labels :
            LET vals == [k \in DOMAIN Labels |-> csv[Labels[k]].new_cases]
                due == i >= Window /\ \A j \in (i - Window + 1)..i : notna(vals[j])
                defined == filtered_df.has_ma /\ filtered_df.new_cases_ma[i].k = "num"
            IN /\ defined <=> due
               /\ defined =>
                      filtered_df.new_cases_ma[i].n * Window =
                          SeqSum(SubSeq(vals, i - Window + 1, i)) * filtered_df.new_cases_ma[i].d

\* C6: a snapshot with people_vaccinated missing and the same snapshot with
\* people_vaccinated = 0 give different vaccination rates
Claim_C6 ==
    (/\ latest_data # <<>>
     /\ ~notna(latest_data[1].cells.people_vaccinated)
     /\ latest_data[1].cells.population > 0)
    => vaccination_rate[1] #
           VaccinationRate([latest_data[1].cells EXCEPT !.people_vaccinated = 0])

\* C7: no metric card of a non-empty series is handed a missing value
Claim_C7 ==
    metric_cards # <<>> =>
        /\ notna(metric_cards[1].total_cases)
        /\ notna(metric_cards[1].total_deaths)
        /\ notna(metric_cards[1].new_cases)

\* what the last run left
Outputs ==
    [df |-> df, filtered_df |-> filtered_df, latest_data |-> latest_data,
     vaccination_rate |-> vaccination_rate, metric_cards |-> metric_cards,
     fig_main |-> fig_main, cfr |-> cfr, fig_pie |-> fig_pie,
     fig_gauge |-> fig_gauge, fig_stringency |-> fig_stringency,
     profile_cards |-> profile_cards, error |-> error]

Claim_C9 ==
    \A a, b \in DOMAIN Labels :
        (a < b /\ df[Labels[a]].date = df[Labels[b]].date) => Labels[a] < Labels[b]

\* C10: unless the date input holds two dates, the filtered series is every
\* row of the selected country in date order, no lower bound applied, and
\* the snapshot is the last of them, a row of the country's latest date
Theorem_C10 ==
    Len(date_range) # 2 =>
        /\ Range(Labels) = {i \in DOMAIN csv : csv[i].location = country}
        /\ Len(Labels) = Cardinality(Range(Labels))
        /\ OrderedByDate
        /\ latest_data # <<>>
        /\ latest_data[1].name = Last(Labels)
        /\ \A i \in DOMAIN csv :
              csv[i].location = country =>
                  to_datetime(csv[i].date) <= latest_data[1].cells.date

\* a lone start date, and a row from before it in the series
Witness_C10 ==
    /\ Len(date_range) = 1
    /\ \E k \in DOMAIN Labels : df[Labels[k]].date < to_datetime(date_range[1])

====
